---- MODULE Spec2Model ----
(***************************************************************************)
(* Model of src/main.rs: a CAN session on a dual-channel USB adapter.      *)
(* main opens the device, initialises and starts both channels, spawns a   *)
(* keyboard watcher, a receiver and a transmitter thread, joins the three  *)
(* and closes the device.  Driver calls, the terminal and the key events   *)
(* are the environment: their results are chosen nondeterministically.     *)
(***************************************************************************)
EXTENDS Integers, Sequences, FiniteSets, TLC

\* ---- bounds of the environment's answers -------------------------------
\* i32 status / frame counts returned by the driver are drawn from
\* -MaxRet..MaxRet; the u8 data_len written by the driver from 0..MaxDataLen.
MaxRet == 2
MaxDataLen == 9

\* the bus delivers at most MaxFrames frames during a run
MaxFrames == 2

RetValues == (0 - MaxRet)..MaxRet
DataLens == 0..MaxDataLen

\* ---- program constants (main.rs:67-71) ----------------------------------
dev_type == 4
dev_index == 0
can1 == 0
can2 == 1
reserved == 0

\* size of VciCanObj.data (main.rs:20)
DataSize == 8

\* the transmit plan `for data in 1..=255` (main.rs:151)
TxFirst == 1
TxLast == 255

\* the VciInitConfig value built at main.rs:79-87; acc_mask 0xFFFFFFFF is
\* written as its two 16-bit halves
config ==
  [acc_code |-> 0, acc_mask |-> <<65535, 65535>>, reserved |-> 0, filter |-> 1,
   timing0 |-> 1, timing1 |-> 28, mode |-> 0]

\* the frame built for one payload value at main.rs:152-157
can_obj(data) ==
  [id |-> 1, time_stamp |-> 0, time_flag |-> 0, send_type |-> 0,
   remote_flag |-> 0, extern_flag |-> 0, data_len |-> 1,
   data |-> <<data, 0, 0, 0, 0, 0, 0, 0>>, reserved |-> <<0, 0, 0>>]

\* the data_len values the driver may write into the k-th frame it delivers:
\* a valid one (0 for the first frame, then 8, 7, ...) or any value larger
\* than the data array
RecvLens(k) ==
  {((k - 1) * DataSize) % (DataSize + 1)} \cup {l \in DataLens : l > DataSize}

\* recv_obj as filled by VCI_Receive (main.rs:137-138); the k-th frame on the
\* bus has id k
RecvFrame(k, len) ==
  [id |-> k, data_len |-> len, data |-> <<7, 6, 5, 4, 3, 2, 1, 0>>]

RecvFrames(k) == {RecvFrame(k, l) : l \in RecvLens(k)}

VARIABLES
  mainPc,   \* position of main: open, init0, init1, start0, start1,
            \* spawnKb, spawnRx, spawnTx, joinTx, joinRx, joinKb, close,
            \* returned (Ok(())), panicked
  calls,    \* device-level driver calls made by main, with their status
  running,  \* the shared AtomicBool
  kbPc,     \* keyboard thread: idle, enable, check, poll, disable, done,
            \* panicked, killed
  rxPc,     \* receive thread: idle, check, recv, done, panicked, killed
  txPc,     \* transmit thread: idle, send, done, killed
  txData,   \* loop variable of the transmit thread
  txLog,    \* the values of `data` for which VCI_Transmit was called, in
            \* order; TxCall gives the arguments of the call
  rawMode,  \* terminal raw mode enabled
  rawLog,   \* the raw-mode calls made, in order, with their outcome
  stopEvents, \* the key events on which the watcher cleared the flag
  rxIn,     \* the frames VCI_Receive delivered with a positive count
  rxOut,    \* the "CAN1 received" lines printed: id and payload slice
  rxResult, \* last VCI_Receive: none, empty (count <= 0), frame (count > 0)
  txResult  \* last VCI_Transmit: none, failed (count <= 0), sent (count > 0)

rxObs == <<rxIn, rxOut, rxResult>>

obsVars == <<rawLog, stopEvents, rxObs, txResult>>

vars ==
  <<mainPc, calls, running, kbPc, rxPc, txPc, txData, txLog, rawMode, obsVars>>

\* ---- environment --------------------------------------------------------
KeyCodes == {"x", "X", "c"}
Modifiers == {"CONTROL", "SHIFT"}
Events ==
  [kind : {"Key"}, code : KeyCodes, mods : SUBSET Modifiers]
    \cup {[kind |-> "Resize", code |-> "none", mods |-> {}]}

\* outcome of event::poll followed by event::read
PollOutcomes ==
  {[res |-> "poll_err"], [res |-> "timeout"], [res |-> "read_err"]}
    \cup {[res |-> "event", ev |-> e] : e \in Events}

\* ---- helpers ------------------------------------------------------------
Ended == {"done", "panicked", "killed"}

\* process exit ends every thread that is still running
Kill(pc) == IF pc \in {"idle"} \cup Ended THEN pc ELSE "killed"

OpenCall(ret) ==
  [fn |-> "VCI_OpenDevice", args |-> <<dev_type, dev_index, reserved>>, ret |-> ret]
InitCall(ch, cfg, ret) ==
  [fn |-> "VCI_InitCAN", args |-> <<dev_type, dev_index, ch, cfg>>, ret |-> ret]
StartCall(ch, ret) ==
  [fn |-> "VCI_StartCAN", args |-> <<dev_type, dev_index, ch>>, ret |-> ret]
CloseCall(ret) ==
  [fn |-> "VCI_CloseDevice", args |-> <<dev_type, dev_index>>, ret |-> ret]

Init ==
  /\ mainPc = "open"
  /\ calls = <<>>
  /\ running = TRUE
  /\ kbPc = "idle"
  /\ rxPc = "idle"
  /\ txPc = "idle"
  /\ txData = TxFirst
  /\ txLog = <<>>
  /\ rawMode = FALSE
  /\ rawLog = <<>>
  /\ stopEvents = <<>>
  /\ rxIn = <<>>
  /\ rxOut = <<>>
  /\ rxResult = "none"
  /\ txResult = "none"

\* ---- main: setup --------------------------------------------------------
\* variant: a failed setup step is reported but main carries on
SetupStep_NoReturn(pc, call, next) ==
  /\ mainPc = pc
  /\ calls' = Append(calls, call)
  /\ mainPc' = next
  /\ UNCHANGED <<running, kbPc, rxPc, txPc, txData, txLog, rawMode, obsVars>>

\* one setup step: make the call; a status other than 1 returns Ok(()) at once
SetupStep(pc, call, next) ==
  /\ mainPc = pc
  /\ calls' = Append(calls, call)
  /\ mainPc' = IF call.ret # 1 THEN "returned" ELSE next
  /\ UNCHANGED <<running, kbPc, rxPc, txPc, txData, txLog, rawMode, obsVars>>

MainOpen == \E s \in RetValues : SetupStep("open", OpenCall(s), "init0")

\* variant: channel 1 is never initialised
MainInit0_SkipsInit1 ==
  \E s \in RetValues : SetupStep("init0", InitCall(can1, config, s), "start0")

MainInit0 == \E s \in RetValues : SetupStep("init0", InitCall(can1, config, s), "init1")

MainInit1 == \E s \in RetValues : SetupStep("init1", InitCall(can2, config, s), "start0")

MainStart0 == \E s \in RetValues : SetupStep("start0", StartCall(can1, s), "start1")

\* variant: the status of the last start call is not tested
MainStart1_Unchecked ==
  /\ mainPc = "start1"
  /\ \E s \in RetValues : calls' = Append(calls, StartCall(can2, s))
  /\ mainPc' = "spawnKb"
  /\ UNCHANGED <<running, kbPc, rxPc, txPc, txData, txLog, rawMode, obsVars>>

MainStart1 == \E s \in RetValues : SetupStep("start1", StartCall(can2, s), "spawnKb")

\* ---- main: spawning -----------------------------------------------------
MainSpawnKb ==
  /\ mainPc = "spawnKb"
  /\ running' = TRUE
  /\ kbPc' = "enable"
  /\ mainPc' = "spawnRx"
  /\ UNCHANGED <<calls, rxPc, txPc, txData, txLog, rawMode, obsVars>>

MainSpawnRx ==
  /\ mainPc = "spawnRx"
  /\ rxPc' = "check"
  /\ mainPc' = "spawnTx"
  /\ UNCHANGED <<calls, running, kbPc, txPc, txData, txLog, rawMode, obsVars>>

MainSpawnTx ==
  /\ mainPc = "spawnTx"
  /\ txPc' = "send"
  /\ txData' = TxFirst
  /\ mainPc' = "joinTx"
  /\ UNCHANGED <<calls, running, kbPc, rxPc, txLog, rawMode, obsVars>>

\* ---- main: joining and closing -------------------------------------------
\* `handle.join().unwrap()`: waits for the thread to end; a thread that
\* panicked makes unwrap panic in main, and the process exits
JoinStep(pc, thr, next) ==
  /\ mainPc = pc
  /\ thr \in Ended
  /\ IF thr = "done"
       THEN /\ mainPc' = next
            /\ UNCHANGED <<kbPc, rxPc, txPc>>
       ELSE /\ mainPc' = "panicked"
            /\ kbPc' = Kill(kbPc)
            /\ rxPc' = Kill(rxPc)
            /\ txPc' = Kill(txPc)
  /\ UNCHANGED <<calls, running, txData, txLog, rawMode, obsVars>>

MainJoinTx == JoinStep("joinTx", txPc, "joinRx")

MainJoinRx == JoinStep("joinRx", rxPc, "joinKb")

\* variant: the keyboard thread is detached instead of joined
MainJoinKb_Detached ==
  /\ mainPc = "joinKb"
  /\ mainPc' = "close"
  /\ UNCHANGED <<calls, running, kbPc, rxPc, txPc, txData, txLog, rawMode, obsVars>>

MainJoinKb == JoinStep("joinKb", kbPc, "close")

\* variant: a failed close is retried
MainClose_Retry ==
  /\ mainPc = "close"
  /\ \E s \in RetValues :
       /\ calls' = Append(calls, CloseCall(s))
       /\ mainPc' = IF s = 1 \/ Len(calls) >= 7 THEN "returned" ELSE "close"
  /\ UNCHANGED <<running, kbPc, rxPc, txPc, txData, txLog, rawMode, obsVars>>

\* the status of VCI_CloseDevice is discarded; main returns Ok(())
MainClose ==
  /\ mainPc = "close"
  /\ \E s \in RetValues : calls' = Append(calls, CloseCall(s))
  /\ mainPc' = "returned"
  /\ UNCHANGED <<running, kbPc, rxPc, txPc, txData, txLog, rawMode, obsVars>>

\* ---- keyboard thread ----------------------------------------------------
IsStopKey(ev) ==
  /\ ev.kind = "Key"
  /\ ev.code = "x"
  /\ "CONTROL" \in ev.mods

\* enable_raw_mode().expect(..)
KbEnable ==
  /\ kbPc = "enable"
  /\ \/ /\ rawMode' = TRUE
        /\ rawLog' = Append(rawLog, [op |-> "enable", ok |-> TRUE])
        /\ kbPc' = "check"
     \/ /\ kbPc' = "panicked"
        /\ rawLog' = Append(rawLog, [op |-> "enable", ok |-> FALSE])
        /\ UNCHANGED rawMode
  /\ UNCHANGED <<mainPc, calls, running, rxPc, txPc, txData, txLog>>
  /\ UNCHANGED <<stopEvents, rxObs, txResult>>

\* `while running_clone.load(SeqCst)`
KbCheck ==
  /\ kbPc = "check"
  /\ kbPc' = IF running THEN "poll" ELSE "disable"
  /\ UNCHANGED <<mainPc, calls, running, rxPc, txPc, txData, txLog, rawMode, obsVars>>

\* variant: the Control modifier is not tested
KbPoll_AnyX ==
  /\ kbPc = "poll"
  /\ \E o \in PollOutcomes :
       IF o.res \in {"poll_err", "read_err"}
         THEN kbPc' = "panicked" /\ UNCHANGED <<running, stopEvents>>
         ELSE IF o.res = "event" /\ o.ev.kind = "Key" /\ o.ev.code = "x"
           THEN running' = FALSE /\ stopEvents' = Append(stopEvents, o.ev) /\ kbPc' = "disable"
           ELSE kbPc' = "check" /\ UNCHANGED <<running, stopEvents>>
  /\ UNCHANGED <<mainPc, calls, rxPc, txPc, txData, txLog, rawMode>>
  /\ UNCHANGED <<rawLog, rxObs, txResult>>

\* one loop body: poll with timeout, read the event, test for Ctrl+X; a poll
\* or read error panics in unwrap; Ctrl+X clears the flag and leaves the loop
KbPoll ==
  /\ kbPc = "poll"
  /\ \E o \in PollOutcomes :
       IF o.res \in {"poll_err", "read_err"}
         THEN kbPc' = "panicked" /\ UNCHANGED <<running, stopEvents>>
         ELSE IF o.res = "event" /\ IsStopKey(o.ev)
           THEN running' = FALSE /\ stopEvents' = Append(stopEvents, o.ev) /\ kbPc' = "disable"
           ELSE kbPc' = "check" /\ UNCHANGED <<running, stopEvents>>
  /\ UNCHANGED <<mainPc, calls, rxPc, txPc, txData, txLog, rawMode>>
  /\ UNCHANGED <<rawLog, rxObs, txResult>>

\* disable_raw_mode().expect(..)
KbDisable ==
  /\ kbPc = "disable"
  /\ \/ /\ rawMode' = FALSE
        /\ rawLog' = Append(rawLog, [op |-> "disable", ok |-> TRUE])
        /\ kbPc' = "done"
     \/ /\ kbPc' = "panicked"
        /\ rawLog' = Append(rawLog, [op |-> "disable", ok |-> FALSE])
        /\ UNCHANGED rawMode
  /\ UNCHANGED <<mainPc, calls, running, rxPc, txPc, txData, txLog>>
  /\ UNCHANGED <<stopEvents, rxObs, txResult>>

\* ---- receive thread -----------------------------------------------------
\* variant: the loop does not read the flag
RxCheck_IgnoresFlag ==
  /\ rxPc = "check"
  /\ rxPc' = "recv"
  /\ UNCHANGED <<mainPc, calls, running, kbPc, txPc, txData, txLog, rawMode, obsVars>>

\* `while running_clone1.load(SeqCst)`
RxCheck ==
  /\ rxPc = "check"
  /\ rxPc' = IF running THEN "recv" ELSE "done"
  /\ UNCHANGED <<mainPc, calls, running, kbPc, txPc, txData, txLog, rawMode, obsVars>>

\* `&data[..n]` panics when n exceeds the length of the array
SliceFaults(data, n) == n > Len(data)

Slice(data, n) == SubSeq(data, 1, n)

\* the line printed for a received frame (main.rs:141)
Report(obj) == [id |-> obj.id, data |-> Slice(obj.data, obj.data_len)]

\* `received_frames > 0`
Received(n) == n > 0

\* one loop body with VCI_Receive returning count n and, for a positive
\* count, frame f in recv_obj: a received frame is printed, and the slice of
\* its data panics when data_len > 8; then the thread sleeps
RxBody(n, f) ==
  /\ rxPc = "recv"
  /\ n > 0 => Len(rxIn) < MaxFrames
  /\ rxIn' = IF n > 0 THEN Append(rxIn, f) ELSE rxIn
  /\ rxResult' = IF n > 0 THEN "frame" ELSE "empty"
  /\ IF Received(n)
       THEN IF SliceFaults(f.data, f.data_len)
              THEN rxPc' = "panicked" /\ UNCHANGED rxOut
              ELSE rxPc' = "check" /\ rxOut' = Append(rxOut, Report(f))
       ELSE rxPc' = "check" /\ UNCHANGED rxOut
  /\ UNCHANGED <<mainPc, calls, kbPc, txPc, txData, txLog, rawMode>>
  /\ UNCHANGED <<rawLog, stopEvents, txResult>>

\* variant: the receiver re-arms the flag after each receive call
RxReceive_Rearms ==
  \E n \in RetValues, f \in RecvFrames(Len(rxIn) + 1) : RxBody(n, f) /\ running' = TRUE

RxReceive ==
  \E n \in RetValues, f \in RecvFrames(Len(rxIn) + 1) : RxBody(n, f) /\ UNCHANGED running

\* ---- transmit thread ----------------------------------------------------
\* the arguments of the VCI_Transmit call made for `data` (main.rs:152-159)
TxCall(data) == [ch |-> can1, obj |-> can_obj(data), len |-> 1]

\* variant: the transmitter stops when the flag is cleared
TxSend_Cancellable ==
  /\ txPc = "send"
  /\ IF running
       THEN /\ txLog' = Append(txLog, txData)
            /\ \E n \in RetValues : txResult' = IF n > 0 THEN "sent" ELSE "failed"
            /\ IF txData = TxLast
                 THEN txPc' = "done" /\ UNCHANGED txData
                 ELSE txPc' = "send" /\ txData' = txData + 1
       ELSE /\ txPc' = "done"
            /\ UNCHANGED <<txData, txLog, txResult>>
  /\ UNCHANGED <<mainPc, calls, running, kbPc, rxPc, rawMode>>
  /\ UNCHANGED <<rawLog, stopEvents, rxObs>>

\* variant: the transmitter gives up after a failed transmit call
TxSend_StopsOnFailure ==
  /\ txPc = "send"
  /\ txLog' = Append(txLog, txData)
  /\ \E n \in RetValues :
       /\ txResult' = IF n > 0 THEN "sent" ELSE "failed"
       /\ IF txData = TxLast \/ n <= 0
            THEN txPc' = "done" /\ UNCHANGED txData
            ELSE txPc' = "send" /\ txData' = txData + 1
  /\ UNCHANGED <<mainPc, calls, running, kbPc, rxPc, rawMode>>
  /\ UNCHANGED <<rawLog, stopEvents, rxObs>>

\* one iteration of `for data in 1..=255`: build the frame, transmit it on
\* channel 0, report, sleep; the flag is not read
TxSend ==
  /\ txPc = "send"
  /\ txLog' = Append(txLog, txData)
  /\ \E n \in RetValues : txResult' = IF n > 0 THEN "sent" ELSE "failed"
  /\ IF txData = TxLast
       THEN txPc' = "done" /\ UNCHANGED txData
       ELSE txPc' = "send" /\ txData' = txData + 1
  /\ UNCHANGED <<mainPc, calls, running, kbPc, rxPc, rawMode>>
  /\ UNCHANGED <<rawLog, stopEvents, rxObs>>

\* ---- specification ------------------------------------------------------
MainNext ==
  \/ MainOpen \/ MainInit0 \/ MainInit1 \/ MainStart0 \/ MainStart1
  \/ MainSpawnKb \/ MainSpawnRx \/ MainSpawnTx
  \/ MainJoinTx \/ MainJoinRx \/ MainJoinKb \/ MainClose

KbNext == KbEnable \/ KbCheck \/ KbPoll \/ KbDisable

RxNext == RxCheck \/ RxReceive

TxNext == TxSend

Next == MainNext \/ KbNext \/ RxNext \/ TxNext

Spec == Init /\ [][Next]_vars

\* the operating system schedules every thread that can run, and every
\* driver call and input poll returns
FairSpec ==
  Spec /\ WF_vars(MainNext) /\ WF_vars(KbNext) /\ WF_vars(RxNext) /\ WF_vars(TxNext)

TypeOK ==
  /\ mainPc \in {"open", "init0", "init1", "start0", "start1", "spawnKb",
                 "spawnRx", "spawnTx", "joinTx", "joinRx", "joinKb", "close",
                 "returned", "panicked"}
  /\ running \in BOOLEAN
  /\ kbPc \in {"idle", "enable", "check", "poll", "disable"} \cup Ended
  /\ rxPc \in {"idle", "check", "recv"} \cup Ended
  /\ txPc \in {"idle", "send"} \cup Ended
  /\ txData \in TxFirst..TxLast
  /\ Len(txLog) <= TxLast
  /\ rawMode \in BOOLEAN
  /\ Len(rawLog) <= 2
  /\ Len(stopEvents) <= 1
  /\ Len(rxIn) <= MaxFrames
  /\ Len(rxOut) <= Len(rxIn)
  /\ rxResult \in {"none", "empty", "frame"}
  /\ txResult \in {"none", "failed", "sent"}

\* ---- observations over the call log --------------------------------------
CloseCalls == Cardinality({i \in DOMAIN calls : calls[i].fn = "VCI_CloseDevice"})

\* the call (fn, channel) has been made and returned 1
Returned1(fn, ch) ==
  \E i \in DOMAIN calls :
    /\ calls[i].fn = fn
    /\ calls[i].ret = 1
    /\ (fn # "VCI_OpenDevice" => calls[i].args[3] = ch)

OpenOk == Returned1("VCI_OpenDevice", 0)

AllSetupOk ==
  /\ OpenOk
  /\ Returned1("VCI_InitCAN", 0) /\ Returned1("VCI_InitCAN", 1)
  /\ Returned1("VCI_StartCAN", 0) /\ Returned1("VCI_StartCAN", 1)

\* a setup call (not the close call) returned a status other than 1
SetupFailedAt(i) ==
  /\ i \in DOMAIN calls
  /\ calls[i].fn # "VCI_CloseDevice"
  /\ calls[i].ret # 1

AllThreadsDone == kbPc = "done" /\ rxPc = "done" /\ txPc = "done"

NoThreadSpawned == kbPc = "idle" /\ rxPc = "idle" /\ txPc = "idle"

ProgramEnded == mainPc \in {"returned", "panicked"}

\* ---- C1 -----------------------------------------------------------------
C1_Safe ==
  /\ CloseCalls <= 1
  /\ CloseCalls = 1 =>
       /\ AllSetupOk
       /\ AllThreadsDone
       /\ calls[Len(calls)].fn = "VCI_CloseDevice"
       /\ mainPc = "returned"
  /\ (mainPc = "returned" /\ AllSetupOk) => CloseCalls = 1

C2_CloseAfterSetupFailure ==
  (mainPc = "returned" /\ OpenOk /\ ~AllSetupOk) => CloseCalls = 1

\* ---- C3 -----------------------------------------------------------------
\* C3: when a thread ended by a panic, the program does not end without
\* having called VCI_CloseDevice exactly once.
C3_CloseAfterPanic ==
  (ProgramEnded /\ "panicked" \in {kbPc, rxPc, txPc}) => CloseCalls = 1

\* ---- C4 -----------------------------------------------------------------
Sig(c) == <<c.fn, c.args>>

SetupOrder ==
  <<Sig(OpenCall(1)), Sig(InitCall(0, config, 1)), Sig(InitCall(1, config, 1)),
    Sig(StartCall(0, 1)), Sig(StartCall(1, 1))>>

SetupCalls == SelectSeq(calls, LAMBDA c : c.fn # "VCI_CloseDevice")

\* C4: the setup calls are a prefix of open, init(0), init(1), start(0),
\* start(1); every start call is preceded by an init call of channel 0 and
\* one of channel 1 that both returned 1 and were given the same
\* configuration.
C4_LifecycleOrder ==
  /\ Len(SetupCalls) <= Len(SetupOrder)
  /\ \A i \in DOMAIN SetupCalls : Sig(SetupCalls[i]) = SetupOrder[i]
  /\ \A i \in DOMAIN calls :
       calls[i].fn = "VCI_StartCAN" =>
         \E j \in 1..(i - 1), k \in 1..(i - 1) :
           /\ calls[j].fn = "VCI_InitCAN" /\ calls[j].args[3] = 0 /\ calls[j].ret = 1
           /\ calls[k].fn = "VCI_InitCAN" /\ calls[k].args[3] = 1 /\ calls[k].ret = 1
           /\ calls[j].args[4] = calls[k].args[4]

C4_Witness ==
  /\ Len(calls) >= 5
  /\ calls[4].fn = "VCI_StartCAN"
  /\ calls[5].fn = "VCI_StartCAN"

\* ---- C5 -----------------------------------------------------------------
\* C5: a setup call that returned a status other than 1 is the last driver
\* call of the run: no init, start, transmit or receive follows it, no
\* thread is spawned, and main has returned.
C5_FailFast ==
  \A i \in DOMAIN calls :
    SetupFailedAt(i) =>
      /\ i = Len(calls)
      /\ mainPc = "returned"
      /\ NoThreadSpawned
      /\ txLog = <<>>

C5_Witness ==
  /\ Len(calls) = 2
  /\ calls[1].ret = 1
  /\ SetupFailedAt(2)
  /\ mainPc = "returned"

\* ---- C6 -----------------------------------------------------------------
\* C6: a thread exists, or a transmit or receive call has been made, only
\* when open, init of both channels and start of both channels returned 1.
C6_NoActivityBeforeSetup ==
  (~NoThreadSpawned \/ txLog # <<>> \/ mainPc \in {"spawnKb", "spawnRx", "spawnTx"})
    => AllSetupOk

C6_Witness ==
  /\ txLog # <<>>
  /\ rxPc = "recv"
  /\ kbPc = "poll"

\* ---- C7 -----------------------------------------------------------------
\* C7: the flag is TRUE (not cancelled) as long as no thread has been
\* spawned; once it is FALSE it stays FALSE, and every later load by the
\* receiver or the watcher takes the cancelled branch.
C7_FlagMonotonic ==
  /\ [](NoThreadSpawned => running)
  /\ [][~running =>
          /\ ~running'
          /\ (rxPc = "check" /\ rxPc' # rxPc) => rxPc' \in {"done", "killed"}
          /\ (kbPc = "check" /\ kbPc' # kbPc) => kbPc' \in {"disable", "killed"}]_vars

C7_Witness ==
  /\ ~running
  /\ rxPc = "done"
  /\ txPc = "send"

\* ---- C8 -----------------------------------------------------------------
C8_Safe ==
  /\ Len(txLog) <= 255
  /\ \A i \in DOMAIN txLog :
       /\ TxCall(txLog[i]).ch = 0
       /\ TxCall(txLog[i]).len = 1
       /\ TxCall(txLog[i]).obj.id = 1
       /\ TxCall(txLog[i]).obj.data_len = 1
       /\ TxCall(txLog[i]).obj.data[1] = i
  /\ txPc = "done" => Len(txLog) = 255

\* C8: the i-th transmit call is on channel 0 for one frame with id 1,
\* data_len 1 and first payload byte i; the transmitter, once spawned,
\* finishes, and has then made exactly 255 calls, whether or not the flag
\* was cleared meanwhile.
C8_TransmitPlan ==
  /\ []C8_Safe
  /\ (txPc = "send" ~> (txPc = "done" /\ Len(txLog) = 255))

C8_Witness ==
  /\ txPc = "done"
  /\ Len(txLog) = 255
  /\ ~running
  /\ kbPc = "done"

\* ---- C9 -----------------------------------------------------------------
\* C9: once the flag is FALSE, the receiver and the watcher both end (by
\* leaving their loop, by a panic, or with the process); a receiver that
\* loads the flag when it is FALSE leaves its loop.
C9_CancelTerminates ==
  /\ (~running ~> (rxPc \in Ended /\ kbPc \in Ended))
  /\ [][(~running /\ rxPc = "check" /\ rxPc' # rxPc) => rxPc' \in {"done", "killed"}]_vars

C9_Witness ==
  /\ ~running
  /\ rxPc = "done"
  /\ kbPc = "done"
  /\ mainPc = "joinTx"

\* ---- C10 ----------------------------------------------------------------
\* C10: when main is at the close call or has made it, every thread has
\* ended: none is about to make or is inside a transmit call, a receive
\* call or an input poll.
C10_NoActivityAtClose ==
  (mainPc = "close" \/ CloseCalls >= 1) =>
    /\ kbPc \in Ended
    /\ rxPc \in Ended
    /\ txPc \in Ended
    /\ Len(txLog) = 255

C10_Witness ==
  /\ mainPc = "close"
  /\ Len(txLog) = 255
  /\ ~rawMode

\* ---- observations over the receiver and the watcher ----------------------
\* the first n bytes of data, as far as data has them
Prefix(data, n) == [i \in 1..(IF n < Len(data) THEN n ELSE Len(data)) |-> data[i]]

\* the watcher left its loop through the Ctrl+X branch
StopDetected == stopEvents # <<>>

RawOps == [i \in DOMAIN rawLog |-> rawLog[i].op]

\* ---- C11 ----------------------------------------------------------------
\* C11: for every frame VCI_Receive delivered, whatever data_len it carries,
\* the receiver has not panicked, data_len is at most 8 and the payload
\* printed for the frame has exactly data_len bytes of the data array.
C11_SliceWithinArray ==
  /\ rxPc # "panicked"
  /\ \A i \in DOMAIN rxIn :
       /\ rxIn[i].data_len <= DataSize
       /\ i \in DOMAIN rxOut
       /\ Len(rxOut[i].data) = rxIn[i].data_len
       /\ rxOut[i].data = Prefix(rxIn[i].data, rxIn[i].data_len)

\* ---- C12 ----------------------------------------------------------------
\* C12: a run in which the watcher received Ctrl+X does not end otherwise
\* than by main returning after exactly one VCI_CloseDevice call.
C12_CancelClosesDevice ==
  (ProgramEnded /\ StopDetected) => (mainPc = "returned" /\ CloseCalls = 1)

\* ---- C13 ----------------------------------------------------------------
\* C13: whenever the program ends, main has returned Ok(()) (exit code 0).
C13_ExitCodeZero == ProgramEnded => mainPc = "returned"

\* ---- C14 ----------------------------------------------------------------
\* C14: the flag changes only in a step of the watcher's poll, from TRUE to
\* FALSE, on a key event with code 'x' and the Control modifier, and at most
\* once per run; a poll step that leaves the flag unchanged sends the
\* watcher back to its flag check (or, on a poll/read error, panics it).
C14_OnlyWatcherWrites ==
  /\ [](/\ Len(stopEvents) <= 1
        /\ (~running <=> Len(stopEvents) = 1)
        /\ \A i \in DOMAIN stopEvents :
             /\ stopEvents[i].kind = "Key"
             /\ stopEvents[i].code = "x"
             /\ "CONTROL" \in stopEvents[i].mods)
  /\ [][/\ running' # running =>
             /\ running /\ ~running'
             /\ kbPc = "poll" /\ kbPc' = "disable"
             /\ Len(stopEvents') = Len(stopEvents) + 1
             /\ <<mainPc', rxPc', txPc', txLog', rxOut'>> = <<mainPc, rxPc, txPc, txLog, rxOut>>
        /\ (kbPc = "poll" /\ kbPc' # "poll" /\ running' = running) =>
             kbPc' \in {"check", "panicked", "killed"}]_vars

C14_Witness ==
  /\ ~running
  /\ Len(stopEvents) = 1
  /\ "SHIFT" \in stopEvents[1].mods
  /\ kbPc = "done"
  /\ rxPc = "recv"

\* ---- C15 ----------------------------------------------------------------
\* C15: a transmit call that returned a count <= 0 is followed by the next
\* value of the plan (or, after the last value, by the end of the plan); a
\* receive call that returned a count <= 0 prints nothing and sends the
\* receiver back to its flag check, where it goes on to the next receive
\* call as long as the flag is TRUE.
C15_FailuresNonFatal ==
  [][/\ (txLog' # txLog /\ txResult' = "failed") =>
          /\ txLog' = Append(txLog, txData)
          /\ IF txData = TxLast
               THEN txPc' = "done"
               ELSE txPc' = "send" /\ txData' = txData + 1
     /\ (rxPc = "recv" /\ rxPc' # "recv" /\ rxResult' = "empty") =>
          /\ rxOut' = rxOut
          /\ rxPc' = "check"
     /\ (rxPc = "check" /\ rxPc' # "check" /\ running) => rxPc' = "recv"]_vars

C15_Witness ==
  /\ txResult = "failed"
  /\ txPc = "send"
  /\ Len(txLog) >= 2
  /\ rxResult = "empty"
  /\ rxPc = "recv"
  /\ running

\* ---- C16 ----------------------------------------------------------------
\* C16: the lines printed by the receiver are, in order, the frames the
\* driver delivered with a positive count: one line per delivered frame,
\* with the frame's id and the first data_len bytes of its data.
C16_ReportsMatchFrames ==
  /\ Len(rxOut) = Len(rxIn)
  /\ \A i \in DOMAIN rxOut :
       /\ rxOut[i].id = rxIn[i].id
       /\ rxOut[i].data = Prefix(rxIn[i].data, rxIn[i].data_len)

\* ---- C17 ----------------------------------------------------------------
\* C17: once the flag is FALSE the receiver does not pass its flag check
\* again: the only receive call that can still return is the one whose
\* check came before the flag was cleared, and after it the receiver is at
\* its check, has left the loop, or has panicked.
C17_OneLateReceive ==
  [][~running =>
       /\ (rxPc' = "recv" => rxPc = "recv")
       /\ (rxPc = "recv" /\ rxPc' # "recv") => rxPc' \in {"check", "panicked"}
       /\ (rxPc = "check" /\ rxPc' # "check") => rxPc' = "done"]_vars

C17_Witness ==
  /\ ~running
  /\ rxPc = "recv"
  /\ rxResult = "frame"
  /\ kbPc = "disable"

\* ---- C18 ----------------------------------------------------------------
C18_Safe ==
  (~running /\ Len(txLog) < TxLast) =>
    /\ txPc \in {"idle", "send"}
    /\ mainPc \in {"spawnRx", "spawnTx", "joinTx"}
    /\ CloseCalls = 0

\* C18: while the flag is FALSE and fewer than 255 transmit calls have been
\* made, the transmitter is still in its plan, main has not got past the
\* join of the transmitter and VCI_CloseDevice has not been called; the
\* remaining transmit calls are made.
C18_CancelKeepsPlan ==
  /\ []C18_Safe
  /\ ((~running /\ Len(txLog) < TxLast) ~> (Len(txLog) = TxLast /\ CloseCalls = 0))

C18_Witness ==
  /\ ~running
  /\ kbPc = "done"
  /\ rxPc = "done"
  /\ mainPc = "joinTx"
  /\ Len(txLog) > 0
  /\ Len(txLog) < TxLast

\* ---- C19 ----------------------------------------------------------------
\* C19: as long as the flag is TRUE the spawned receiver is in its polling
\* loop, main has not got past the join of the receiver, and
\* VCI_CloseDevice has not been called.
C19_NoCancelNoEnd ==
  (running /\ rxPc # "idle") =>
    /\ rxPc \in {"check", "recv"}
    /\ mainPc \in {"spawnTx", "joinTx", "joinRx"}
    /\ CloseCalls = 0

\* ---- C20 ----------------------------------------------------------------
\* C20: raw mode is enabled and then disabled, at most once each; when the
\* watcher left its loop through Ctrl+X and the program has ended, and when
\* main is at or past the close call, both calls have been made; raw mode
\* is off when main returns after a complete setup.
C20_RawModeBalanced ==
  /\ Len(RawOps) <= 2
  /\ \A i \in DOMAIN RawOps : RawOps[i] = <<"enable", "disable">>[i]
  /\ (ProgramEnded /\ StopDetected) => RawOps = <<"enable", "disable">>
  /\ (mainPc = "close" \/ CloseCalls >= 1) => RawOps = <<"enable", "disable">>
  /\ (mainPc = "returned" /\ AllSetupOk) => ~rawMode

====
